---- MODULE Spec2Model ----
(***************************************************************************)
(* Kakao idle-RPG bot (src/main.py): the users table row of one user, the  *)
(* /webhook handler that reads it, dispatches on the utterance and writes  *)
(* partial-field UPDATEs, and the KST calendar day.                        *)
(*                                                                         *)
(* Utterances are sequences of words (the utterance split at blanks).      *)
(* TLA+ strings are ASCII, so the Korean words are romanised:              *)
(*   doum = help, chwiso = cancel, naejeongbo = my info, seutaet = stat,   *)
(*   sayong = use, chulseok = attendance, chekeu = check, ganghwa =        *)
(*   enhance, jigeop = job, moheom = adventure, jeonsa = warrior,          *)
(*   mabeopsa = mage, ninja = ninja, swium = easy, botong = normal,        *)
(*   eoryeoum = hard.                                                      *)
(* The draw of random.random() is modelled in units of 1/10000.            *)
(*                                                                         *)
(* Three specifications: Spec handles the requests one at a time;          *)
(* SpecRolls calls level_up_rolls alone, on every draw; SpecConc lets      *)
(* several workers handle requests of the user at once, the load of the    *)
(* row and each UPDATE statement being separate steps.                     *)
(***************************************************************************)
EXTENDS Integers, Sequences, FiniteSets, TLC

VARIABLES
    db,     \* the users table restricted to the one user: {} or {row}
    clock,  \* the current KST calendar day (a day number >= 1)
    req,    \* the frame of the request handled last: what it loaded and drew
    nreq,   \* number of requests handled so far
    att,    \* history: per day, the attendance commands sent and the grants made
    procs,  \* the frames of the requests in flight, when requests interleave
    lu      \* one call of level_up_rolls: its arguments, its draw, its result

vars == <<db, clock, req, nreq, att, procs, lu>>

(* ---------------- bounds of the model ---------------- *)
MaxRequests == 3
MaxDay == 3

(* ---------------- program constants ---------------- *)
HP_CAP == 999
ATK_CAP == 99
INT_CAP == 99
SPD_CAP == 99
LUK_CAP == 999
LEVEL_CAP == 99
NULL == "NULL"      \* Python None / SQL NULL in a TEXT column
NoDate == 0         \* last_attendance IS NULL (days are numbered from 1)

(* ---------------- the stored row ---------------- *)
Fields == {"level", "gold", "weapon_level", "pending", "job", "stat_points",
           "hp", "atk", "int_stat", "spd", "luk", "fatigue", "last_attendance"}

\* INSERT INTO users ... VALUES (?, 1, 100, 0, ?, NULL, NULL, 0, 1, 1, 1, 1, 1, 0, NULL)
NewUser ==
    [level |-> 1, gold |-> 100, weapon_level |-> 0, pending |-> NULL,
     job |-> NULL, stat_points |-> 0, hp |-> 1, atk |-> 1, int_stat |-> 1,
     spd |-> 1, luk |-> 1, fatigue |-> 0, last_attendance |-> NoDate]

\* faulty variant: REPLACE INTO instead of UPDATE, the unnamed columns fall back to
\* their defaults
update_replace_row(row, fields) ==
    [k \in DOMAIN row |-> IF k \in DOMAIN fields THEN fields[k] ELSE NewUser[k]]

\* UPDATE users SET k1 = ?, k2 = ? ...: the named columns change, the rest stay
update_user_fields(row, fields) ==
    [k \in DOMAIN row |-> IF k \in DOMAIN fields THEN fields[k] ELSE row[k]]

set_pending(pending) == [pending |-> pending]

\* faulty variant: the upper bound is not applied
clamp_lower_only(x, lo, hi) == IF x < lo THEN lo ELSE x

clamp(x, lo, hi) == IF x < lo THEN lo ELSE IF x > hi THEN hi ELSE x

Min(a, b) == IF a < b THEN a ELSE b
Max(a, b) == IF a > b THEN a ELSE b

(* ---------------- utterances ---------------- *)
\* the alias lists of the global commands, lines 259-362
HelpCmds == {<<"/doum">>, <<"doum">>, <<"help">>, <<"/help">>}
CancelCmds == {<<"/chwiso">>, <<"chwiso">>, <<"cancel">>, <<"/cancel">>}
InfoCmds == {<<"/naejeongbo">>, <<"naejeongbo">>, <<"/me">>}
StatsCmds == {<<"/seutaet">>, <<"seutaet">>}
StatUseCmds == {<<"seutaet", "sayong">>, <<"/seutaetsayong">>}
AttendanceCmds == {<<"/chulseok">>, <<"chulseok">>, <<"chulseokchekeu">>,
                   <<"chulseok", "chekeu">>}
EnhanceCmds == {<<"/ganghwa">>, <<"ganghwa">>}
JobCmds == {<<"/jigeop">>, <<"jigeop">>}
AdventureCmds == {<<"/moheom">>, <<"moheom">>}

GlobalCmds ==
    HelpCmds \cup CancelCmds \cup InfoCmds \cup StatsCmds \cup StatUseCmds
    \cup AttendanceCmds \cup EnhanceCmds \cup JobCmds \cup AdventureCmds

StatNames == {"HP", "ATK", "INT", "SPD", "LUK"}
Difficulties == {"swium", "botong", "eoryeoum"}

\* str.upper() on a word: the Latin letters go to upper case, Hangul and
\* digits are unchanged
upper(w) ==
    CASE w = "hp" -> "HP"
      [] w = "atk" -> "ATK"
      [] w = "int" -> "INT"
      [] w = "spd" -> "SPD"
      [] w = "luk" -> "LUK"
      [] w = "Atk" -> "ATK"
      [] w = "x" -> "X"
      [] w = "str" -> "STR"
      [] OTHER -> w

\* int(word): decimal numerals with an optional sign parse, anything else
\* raises ValueError (ok = FALSE)
IntMax == 40
Numerals == 0 .. IntMax
int(w) ==
    IF \E n \in Numerals : w = ToString(n) \/ w = "+" \o ToString(n)
    THEN [ok |-> TRUE,
          val |-> CHOOSE n \in Numerals : w = ToString(n) \/ w = "+" \o ToString(n)]
    ELSE IF \E n \in Numerals : w = "-" \o ToString(n)
    THEN [ok |-> TRUE, val |-> 0 - (CHOOSE n \in Numerals : w = "-" \o ToString(n))]
    ELSE [ok |-> FALSE, val |-> 0]

\* msg.startswith(word + " ") for a stripped utterance: a first word and more
startswith(msg, word) == Len(msg) >= 2 /\ msg[1] = word

\* msg.split(" ", 1)[1].strip(): the rest of the utterance; a rest of several
\* words is one string with blanks in it, which no mapping holds
rest(msg) == IF Len(msg) = 2 THEN msg[2] ELSE "several words"

(* ---------------- game logic ---------------- *)
\* faulty variant: the +1 check comes before the +2 check
level_up_rolls_one_first(difficulty, luk, r) ==
    LET bonus == luk IN
    IF difficulty = "swium"
    THEN LET p1 == 3000 + bonus IN IF r < p1 THEN 1 ELSE 0
    ELSE IF difficulty = "botong"
    THEN LET p2 == 1000 + bonus
             p1 == 4000 + bonus
         IN  IF r < p1 THEN 1 ELSE IF r < p1 + p2 THEN 2 ELSE 0
    ELSE IF difficulty = "eoryeoum"
    THEN LET p2 == 3000 + bonus
             p1 == 7000 + bonus
         IN  IF r < p1 THEN 1 ELSE IF r < p1 + p2 THEN 2 ELSE 0
    ELSE 0

\* level_up_rolls with r = floor(10000 * random.random()), bonus = luk / 10000
level_up_rolls(difficulty, luk, r) ==
    LET bonus == luk IN
    IF difficulty = "swium"
    THEN LET p1 == 3000 + bonus IN IF r < p1 THEN 1 ELSE 0
    ELSE IF difficulty = "botong"
    THEN LET p2 == 1000 + bonus
             p1 == 4000 + bonus
         IN  IF r < p2 THEN 2 ELSE IF r < p2 + p1 THEN 1 ELSE 0
    ELSE IF difficulty = "eoryeoum"
    THEN LET p2 == 3000 + bonus
             p1 == 7000 + bonus
         IN  IF r < p2 THEN 2 ELSE IF r < p2 + p1 THEN 1 ELSE 0
    ELSE 0

fatigue_cost(difficulty) ==
    CASE difficulty = "swium" -> 1
      [] difficulty = "botong" -> 2
      [] difficulty = "eoryeoum" -> 3
      [] OTHER -> 999

base_gold(difficulty) ==
    CASE difficulty = "swium" -> 10
      [] difficulty = "botong" -> 20
      [] difficulty = "eoryeoum" -> 35

RECURSIVE Sum(_)
Sum(s) == IF s = <<>> THEN 0 ELSE Head(s) + Sum(Tail(s))

(* ---------------- the /webhook handler ---------------- *)
\* What one request does: the UPDATE statements it issues, in order, the
\* return statement it leaves by (resp), and the random draws it consumed
\* (roll: randint(1,100); r: random(); pts: the randint(1,10) draws; g:
\* randint(0,5); 0, -1, <<>>, -1 when not drawn).
Reply(resp, writes) ==
    [resp |-> resp, writes |-> writes, roll |-> 0, r |-> -1, pts |-> <<>>, g |-> -1]

FallThrough == Reply(NULL, <<>>)

\* faulty variant: cancel answers without clearing pending
cancel_without_clear(user) ==
    [resp |-> "cancelled", writes |-> <<>>, roll |-> 0, r |-> -1, pts |-> <<>>,
     g |-> -1]

\* lines 273-275
cancel(user) == Reply("cancelled", <<set_pending(NULL)>>)

\* lines 310-318
\* faulty variant: the prompt is given without looking at stat_points
stat_use_unchecked(user) ==
    Reply("stat_alloc_prompt", <<set_pending("STAT_ALLOC")>>)

stat_use(user) ==
    IF user.stat_points <= 0
    THEN Reply("no_stat_points", <<>>)
    ELSE Reply("stat_alloc_prompt", <<set_pending("STAT_ALLOC")>>)

\* faulty variant: no comparison with last_attendance
attendance_every_time(user, today) ==
    Reply("attended",
          <<[fatigue |-> user.fatigue + 30, last_attendance |-> today]>>)

\* lines 320-326
attendance(user, today) ==
    IF user.last_attendance = today
    THEN Reply("already_attended", <<>>)
    ELSE Reply("attended",
               <<[fatigue |-> user.fatigue + 30, last_attendance |-> today]>>)

\* faulty variant: the gold is not compared with the cost
enhance_unchecked(user, rnd) ==
    LET cost == 50 + user.weapon_level * 25
        success_rate == Max(10, 70 - user.weapon_level * 10)
        roll == rnd.roll
        gold == user.gold - cost
    IN  IF roll <= success_rate
        THEN [Reply("enhance_success",
                    <<[gold |-> gold, weapon_level |-> user.weapon_level + 1]>>)
              EXCEPT !.roll = roll]
        ELSE [Reply("enhance_fail",
                    <<[gold |-> gold, weapon_level |-> user.weapon_level]>>)
              EXCEPT !.roll = roll]

\* faulty variant: the success rate has no floor of 10
enhance_no_floor(user, rnd) ==
    LET cost == 50 + user.weapon_level * 25
        success_rate == 70 - user.weapon_level * 10
        roll == rnd.roll
        gold == user.gold - cost
    IN  IF user.gold < cost
        THEN Reply("gold_short", <<>>)
        ELSE IF roll <= success_rate
        THEN [Reply("enhance_success",
                    <<[gold |-> gold, weapon_level |-> user.weapon_level + 1]>>)
              EXCEPT !.roll = roll]
        ELSE [Reply("enhance_fail",
                    <<[gold |-> gold, weapon_level |-> user.weapon_level]>>)
              EXCEPT !.roll = roll]

\* lines 328-351
enhance(user, rnd) ==
    LET cost == 50 + user.weapon_level * 25
        success_rate == Max(10, 70 - user.weapon_level * 10)
        roll == rnd.roll
        gold == user.gold - cost
    IN  IF user.gold < cost
        THEN Reply("gold_short", <<>>)
        ELSE IF roll <= success_rate
        THEN [Reply("enhance_success",
                    <<[gold |-> gold, weapon_level |-> user.weapon_level + 1]>>)
              EXCEPT !.roll = roll]
        ELSE [Reply("enhance_fail",
                    <<[gold |-> gold, weapon_level |-> user.weapon_level]>>)
              EXCEPT !.roll = roll]

\* faulty variant: the refusal ends the interaction under way
job_request_refusal_clears(user) ==
    IF user.job # NULL
    THEN Reply("job_change_refused", <<set_pending(NULL)>>)
    ELSE Reply("job_prompt", <<set_pending("JOB_SELECT")>>)

\* lines 353-360
job_request(user) ==
    IF user.job # NULL
    THEN Reply("job_change_refused", <<>>)
    ELSE Reply("job_prompt", <<set_pending("JOB_SELECT")>>)

\* lines 362-367
adventure_request(user) ==
    Reply("adventure_prompt", <<set_pending("ADVENTURE_SELECT")>>)

job_mapping(choice) ==
    CASE choice = "jeonsa" -> "WARRIOR"
      [] choice = "mabeopsa" -> "MAGE"
      [] choice = "ninja" -> "NINJA"
      [] OTHER -> NULL

\* faulty variant: the job is stored and the selection stays pending
pending_job_select_stays(user, msg) ==
    IF user.job # NULL
    THEN Reply("job_change_blocked", <<set_pending(NULL)>>)
    ELSE IF startswith(msg, "jigeop")
    THEN LET choice == rest(msg) IN
         IF job_mapping(choice) = NULL
         THEN Reply("job_choice_invalid", <<>>)
         ELSE Reply("job_set", <<[job |-> job_mapping(choice)]>>)
    ELSE FallThrough

\* lines 372-391
pending_job_select(user, msg) ==
    IF user.job # NULL
    THEN Reply("job_change_blocked", <<set_pending(NULL)>>)
    ELSE IF startswith(msg, "jigeop")
    THEN LET choice == rest(msg) IN
         IF job_mapping(choice) = NULL
         THEN Reply("job_choice_invalid", <<>>)
         ELSE Reply("job_set", <<set_pending(NULL), [job |-> job_mapping(choice)]>>)
    ELSE FallThrough

\* the column and the cap of a stat word, lines 409-447
stat_column(name) ==
    CASE name = "HP" -> "hp"
      [] name = "ATK" -> "atk"
      [] name = "INT" -> "int_stat"
      [] name = "SPD" -> "spd"
      [] name = "LUK" -> "luk"

stat_cap(name) ==
    CASE name = "HP" -> HP_CAP
      [] name = "ATK" -> ATK_CAP
      [] name = "INT" -> INT_CAP
      [] name = "SPD" -> SPD_CAP
      [] name = "LUK" -> LUK_CAP

\* faulty variant: stat_points is charged the requested amount, not the amount used
allocate_charge_requested(user, name, amount) ==
    LET col == stat_column(name)
        new == clamp(user[col] + amount, 1, stat_cap(name))
    IN  Reply("stat_allocated",
              <<(col :> new) @@ [stat_points |-> user.stat_points - amount],
                set_pending(NULL)>>)

\* lines 409-415 and the four branches like it
allocate(user, name, amount) ==
    LET col == stat_column(name)
        new == clamp(user[col] + amount, 1, stat_cap(name))
        used == new - user[col]
    IN  Reply("stat_allocated",
              <<(col :> new) @@ [stat_points |-> user.stat_points - used],
                set_pending(NULL)>>)

\* faulty variant: an amount that does not parse counts as 1
pending_stat_alloc_default_one(user, msg) ==
    LET parts == [i \in 1 .. Len(msg) |-> upper(msg[i])] IN
    IF Len(parts) = 2 /\ parts[1] \in StatNames
    THEN LET parsed == int(parts[2])
             amount == IF parsed.ok THEN parsed.val ELSE 1
         IN  IF amount <= 0
             THEN Reply("amount_invalid", <<>>)
             ELSE IF amount > user.stat_points
             THEN Reply("stat_points_short", <<>>)
             ELSE allocate(user, parts[1], amount)
    ELSE FallThrough

\* lines 395-447
pending_stat_alloc(user, msg) ==
    LET parts == [i \in 1 .. Len(msg) |-> upper(msg[i])] IN
    IF Len(parts) = 2 /\ parts[1] \in StatNames
    THEN LET parsed == int(parts[2])
             amount == IF parsed.ok THEN parsed.val ELSE -1
         IN  IF amount <= 0
             THEN Reply("amount_invalid", <<>>)
             ELSE IF amount > user.stat_points
             THEN Reply("stat_points_short", <<>>)
             ELSE allocate(user, parts[1], amount)
    ELSE FallThrough

\* faulty variant: the levels gained are not cut at LEVEL_CAP
adventure_no_level_cap(user, difficulty, rnd) ==
    LET cost == fatigue_cost(difficulty)
        inc == level_up_rolls(difficulty, user.luk, rnd.r)
        real_inc == inc
        pts == SubSeq(rnd.pts, 1, real_inc)
        gained_points == Sum(pts)
        gain_gold == base_gold(difficulty) + rnd.g
    IN  IF user.fatigue < cost
        THEN Reply("fatigue_short", <<>>)
        ELSE [Reply("adventure_done",
                    <<[level |-> user.level + real_inc,
                       gold |-> user.gold + gain_gold,
                       stat_points |-> user.stat_points + gained_points,
                       fatigue |-> user.fatigue - cost,
                       pending |-> NULL]>>)
              EXCEPT !.r = rnd.r, !.pts = pts, !.g = rnd.g]

\* faulty variant: a refusal for fatigue clears pending
adventure_clear_when_short(user, difficulty, rnd) ==
    LET cost == fatigue_cost(difficulty)
        inc == level_up_rolls(difficulty, user.luk, rnd.r)
        real_inc == IF inc > 0 THEN Min(inc, LEVEL_CAP - user.level) ELSE 0
        pts == SubSeq(rnd.pts, 1, real_inc)
        gained_points == Sum(pts)
        gain_gold == base_gold(difficulty) + rnd.g
    IN  IF user.fatigue < cost
        THEN Reply("fatigue_short", <<set_pending(NULL)>>)
        ELSE [Reply("adventure_done",
                    <<[level |-> user.level + real_inc,
                       gold |-> user.gold + gain_gold,
                       stat_points |-> user.stat_points + gained_points,
                       fatigue |-> user.fatigue - cost,
                       pending |-> NULL]>>)
              EXCEPT !.r = rnd.r, !.pts = pts, !.g = rnd.g]

\* lines 460-495
adventure(user, difficulty, rnd) ==
    LET cost == fatigue_cost(difficulty)
        inc == level_up_rolls(difficulty, user.luk, rnd.r)
        real_inc == IF inc > 0 THEN Min(inc, LEVEL_CAP - user.level) ELSE 0
        pts == SubSeq(rnd.pts, 1, real_inc)
        gained_points == Sum(pts)
        gain_gold == base_gold(difficulty) + rnd.g
    IN  IF user.fatigue < cost
        THEN Reply("fatigue_short", <<>>)
        ELSE [Reply("adventure_done",
                    <<[level |-> user.level + real_inc,
                       gold |-> user.gold + gain_gold,
                       stat_points |-> user.stat_points + gained_points,
                       fatigue |-> user.fatigue - cost,
                       pending |-> NULL]>>)
              EXCEPT !.r = rnd.r, !.pts = pts, !.g = rnd.g]

\* lines 451-495
pending_adventure_select(user, msg, rnd) ==
    IF startswith(msg, "moheom")
    THEN LET difficulty == rest(msg) IN
         IF difficulty \notin Difficulties
         THEN Reply("difficulty_invalid", <<>>)
         ELSE adventure(user, difficulty, rnd)
    ELSE FallThrough

\* faulty variant: the continuation is chosen by the utterance, not by pending
pending_step_by_utterance(user, msg, rnd) ==
    IF startswith(msg, "jigeop") THEN pending_job_select(user, msg)
    ELSE IF startswith(msg, "moheom") THEN pending_adventure_select(user, msg, rnd)
    ELSE pending_stat_alloc(user, msg)

\* lines 372-497: the continuation of the pending interaction
pending_step(user, msg, rnd) ==
    IF user.pending = "JOB_SELECT" THEN pending_job_select(user, msg)
    ELSE IF user.pending = "STAT_ALLOC" THEN pending_stat_alloc(user, msg)
    ELSE IF user.pending = "ADVENTURE_SELECT"
    THEN pending_adventure_select(user, msg, rnd)
    ELSE FallThrough

\* lines 499-519: the re-prompt of the pending kind, or the fallback
guide(user) ==
    IF user.pending = "ADVENTURE_SELECT" THEN Reply("adventure_reprompt", <<>>)
    ELSE IF user.pending = "JOB_SELECT" THEN Reply("job_reprompt", <<>>)
    ELSE IF user.pending = "STAT_ALLOC" THEN Reply("stat_reprompt", <<>>)
    ELSE Reply("unknown_command", <<>>)

\* faulty variant: a pending continuation is looked at before the global commands
webhook_pending_first(user, msg, today, rnd) ==
    LET step == pending_step(user, msg, rnd) IN
    IF user.pending # NULL /\ step.resp # NULL THEN step
    ELSE IF user.pending # NULL THEN guide(user)
    ELSE IF msg \in HelpCmds THEN Reply("help", <<>>)
    ELSE IF msg \in CancelCmds THEN cancel(user)
    ELSE IF msg \in InfoCmds THEN Reply("info", <<>>)
    ELSE IF msg \in StatsCmds THEN Reply("stats", <<>>)
    ELSE IF msg \in StatUseCmds THEN stat_use(user)
    ELSE IF msg \in AttendanceCmds THEN attendance(user, today)
    ELSE IF msg \in EnhanceCmds THEN enhance(user, rnd)
    ELSE IF msg \in JobCmds THEN job_request(user)
    ELSE IF msg \in AdventureCmds THEN adventure_request(user)
    ELSE guide(user)

\* lines 256-519, in the order of the code
webhook(user, msg, today, rnd) ==
    IF msg \in HelpCmds THEN Reply("help", <<>>)
    ELSE IF msg \in CancelCmds THEN cancel(user)
    ELSE IF msg \in InfoCmds THEN Reply("info", <<>>)
    ELSE IF msg \in StatsCmds THEN Reply("stats", <<>>)
    ELSE IF msg \in StatUseCmds THEN stat_use(user)
    ELSE IF msg \in AttendanceCmds THEN attendance(user, today)
    ELSE IF msg \in EnhanceCmds THEN enhance(user, rnd)
    ELSE IF msg \in JobCmds THEN job_request(user)
    ELSE IF msg \in AdventureCmds THEN adventure_request(user)
    ELSE LET step == pending_step(user, msg, rnd) IN
         IF step.resp # NULL THEN step ELSE guide(user)

\* the row after the UPDATE statements of a request, applied in order
RECURSIVE ApplyWrites(_, _)
ApplyWrites(row, writes) ==
    IF writes = <<>> THEN row
    ELSE ApplyWrites(update_user_fields(row, Head(writes)), Tail(writes))

\* faulty variant: the defaults are loaded whether or not the row exists
get_or_create_user_fresh(table) == NewUser

\* lines 85-106: the row of the user, inserted with the defaults when absent
get_or_create_user(table) ==
    IF table = {} THEN NewUser ELSE CHOOSE row \in table : TRUE

(* ---------------- inputs of the model ---------------- *)
\* The utterances tried: every global command (two of them under a second
\* alias), every continuation, and malformed continuations of each kind.
Utterances ==
    {<<"/doum">>, <<"/chwiso">>, <<"cancel">>, <<"/naejeongbo">>, <<"/seutaet">>,
     <<"seutaet", "sayong">>, <<"/chulseok">>, <<"chulseok", "chekeu">>,
     <<"/ganghwa">>, <<"/jigeop">>, <<"/moheom">>}
    \cup {<<"jigeop", c>> : c \in {"jeonsa", "mabeopsa", "ninja", "gungsu"}}
    \cup {<<"moheom", d>> : d \in {"swium", "botong", "eoryeoum", "jiok"}}
    \cup {<<s, "1">> : s \in StatNames}
    \cup {<<"ATK", "3">>, <<"INT", "3">>, <<"atk", "+2">>, <<"ATK", "9">>, <<"ATK", "0">>,
          <<"ATK", "-1">>, <<"ATK", "x">>, <<"STR", "1">>, <<"ATK">>,
          <<"ATK", "1", "2">>}
    \cup {<<"annyeong">>, <<>>}

\* The draws tried.  randint(1, 100): both ends and both sides of the
\* success rate.  random(): both ends and both sides of every threshold of
\* level_up_rolls.  randint(1, 10) and randint(0, 5): both ends.
RollDraws(user) ==
    LET rate == Max(10, 70 - user.weapon_level * 10) IN {1, rate, rate + 1, 100}

RDraws(luk) ==
    {0, 999 + luk, 1000 + luk, 2999 + luk, 3000 + luk,
     4999 + 2 * luk, 5000 + 2 * luk, 9999}

PtsDraws == {<<1, 1>>, <<1, 10>>, <<10, 10>>}

GoldDraws == {0, 5}

NoDraw == [roll |-> 1, r |-> 0, pts |-> <<1, 1>>, g |-> 0]

\* the draws a request consumes: the others are never asked for
Draws(user, msg, today) ==
    LET dry == webhook(user, msg, today, NoDraw) IN
    IF dry.roll # 0
    THEN {[NoDraw EXCEPT !.roll = x] : x \in RollDraws(user)}
    ELSE IF dry.r # -1
    THEN {[NoDraw EXCEPT !.r = x, !.pts = p, !.g = y] :
              x \in RDraws(user.luk), p \in PtsDraws, y \in GoldDraws}
    ELSE {NoDraw}

\* Rows of a long-time player, each produced by a serial run of requests.
\* Veteran: the job chosen; five days of attendance (150 fatigue) spent on 49
\* hard adventures (48 of +2 levels, one of +1) and 3 easy ones without a
\* level; 198 stat points drawn over the 97 levels, 97 spent on ATK and 98
\* on INT; seven successful enhancements and four failed ones at +7; then
\* /moheom on the last of the five days (day 1 here).  Capped: the same row
\* after /chulseok and 'moheom eoryeoum' on day 2 (+2 rolled, one level
\* granted, 2 stat points and 40 gold drawn).
Veteran ==
    [level |-> 98, gold |-> 290, weapon_level |-> 7, pending |-> "ADVENTURE_SELECT",
     job |-> "NINJA", stat_points |-> 3, hp |-> 1, atk |-> 98, int_stat |-> 99,
     spd |-> 1, luk |-> 1, fatigue |-> 0, last_attendance |-> 1]

Capped ==
    [level |-> 99, gold |-> 330, weapon_level |-> 7, pending |-> NULL,
     job |-> "NINJA", stat_points |-> 5, hp |-> 1, atk |-> 98, int_stat |-> 99,
     spd |-> 1, luk |-> 1, fatigue |-> 27, last_attendance |-> 2]

(* ---------------- the state machine ---------------- *)
NoRequest ==
    [user |-> NewUser, created |-> FALSE, msg |-> <<>>, today |-> 0,
     resp |-> NULL, writes |-> <<>>, roll |-> 0, r |-> -1, pts |-> <<>>, g |-> -1]

\* no request in flight, no call of level_up_rolls under way
NoProcs == <<>>
NoCall == [difficulty |-> NULL, luk |-> 0, r |-> 0, result |-> -1]

\* the attendance history behind a table: the day of last_attendance is a
\* day on which the command was sent and the grant made
AttOf(table) ==
    [d \in 1 .. MaxDay |->
        IF table # {} /\ get_or_create_user(table).last_attendance = d
        THEN [asked |-> 1, grants |-> 1] ELSE [asked |-> 0, grants |-> 0]]

Init ==
    /\ db \in {{}, {Veteran}, {Capped}}
    /\ clock = 2
    /\ req = NoRequest
    /\ nreq = 0
    /\ att = AttOf(db)
    /\ procs = NoProcs
    /\ lu = NoCall

\* One request, handled from its read to its return with no other request
\* in between.
Webhook ==
    /\ nreq < MaxRequests
    /\ \E m \in Utterances :
         LET user == get_or_create_user(db) IN
         \E rnd \in Draws(user, m, clock) :
           LET out == webhook(user, m, clock, rnd) IN
           /\ db' = {ApplyWrites(user, out.writes)}
           /\ req' = [user |-> user, created |-> (db = {}), msg |-> m,
                      today |-> clock, resp |-> out.resp, writes |-> out.writes,
                      roll |-> out.roll, r |-> out.r, pts |-> out.pts, g |-> out.g]
           /\ nreq' = nreq + 1
           /\ att' = IF m \in AttendanceCmds
                     THEN [att EXCEPT ![clock] =
                              [asked |-> 1,
                               grants |-> @.grants + IF out.writes # <<>> THEN 1 ELSE 0]]
                     ELSE att
           /\ UNCHANGED <<clock, procs, lu>>

\* Midnight in KST: today_kst_str() returns the next date from now on.
Tick ==
    /\ clock < MaxDay
    /\ clock' = clock + 1
    /\ UNCHANGED <<db, req, nreq, att, procs, lu>>

Next == Webhook \/ Tick

Spec == Init /\ [][Next]_vars

(* ======================= properties ======================= *)
\* the stored row, once the user has one
Stored == CHOOSE row \in db : TRUE

\* a request has been handled: req is its frame, req.user the row it loaded
\* and Stored the row it left
Handled == req.resp # NULL

ReqDraws == [roll |-> req.roll, r |-> req.r, pts |-> req.pts, g |-> req.g]

\* the columns of a row other than the named ones are as in another row
SameExcept(new, old, cols) == \A k \in Fields \ cols : new[k] = old[k]

PendingKinds == {NULL, "JOB_SELECT", "STAT_ALLOC", "ADVENTURE_SELECT"}

InRange(row) ==
    /\ 1 <= row.level /\ row.level <= 99
    /\ 1 <= row.hp /\ row.hp <= 999
    /\ 1 <= row.atk /\ row.atk <= 99
    /\ 1 <= row.int_stat /\ row.int_stat <= 99
    /\ 1 <= row.spd /\ row.spd <= 99
    /\ 1 <= row.luk /\ row.luk <= 999
    /\ row.stat_points >= 0
    /\ row.gold >= 0
    /\ row.fatigue >= 0
    /\ row.pending \in PendingKinds

\* C1: after any sequence of requests handled one at a time, the stored row
\* has 1 <= level <= 99, 1 <= hp <= 999, 1 <= atk, int_stat, spd <= 99,
\* 1 <= luk <= 999, stat_points >= 0, gold >= 0, fatigue >= 0 and pending one
\* of NULL, JOB_SELECT, STAT_ALLOC, ADVENTURE_SELECT.
C1_FieldRanges == db # {} => InRange(Stored)

\* a request at a cap: an allocation that the cap cut short, to level 99
C1_Witness ==
    /\ Handled
    /\ req.resp = "stat_allocated"
    /\ req.msg = <<"ATK", "3">>
    /\ Stored.atk = 99
    /\ Stored.level = 99

\* the responses of the global commands (lines 259-367)
GlobalResponses ==
    {"help", "cancelled", "info", "stats", "no_stat_points", "stat_alloc_prompt",
     "already_attended", "attended", "gold_short", "enhance_success",
     "enhance_fail", "job_change_refused", "job_prompt", "adventure_prompt"}

\* the value a request wrote to pending last, or the value it loaded when it
\* wrote none
RECURSIVE PendingAfter(_, _)
PendingAfter(pending, writes) ==
    IF writes = <<>> THEN pending
    ELSE PendingAfter(IF "pending" \in DOMAIN Head(writes)
                      THEN Head(writes).pending ELSE pending,
                      Tail(writes))

C3_JobWriteOnce ==
    (Handled /\ req.user.job # NULL) => Stored.job = req.user.job

\* a job chosen in this run, then job selection asked for again
C3_Witness ==
    /\ Handled
    /\ req.user.job = "WARRIOR"
    /\ req.msg \in JobCmds
    /\ req.resp = "job_change_refused"
    /\ Stored.job = "WARRIOR"

\* C4: the cancel command, in any state, leaves pending NULL and every other
\* column as it was.
C4_Cancel ==
    (Handled /\ req.msg \in CancelCmds) =>
        /\ Stored.pending = NULL
        /\ SameExcept(Stored, req.user, {"pending"})

\* cancel under a pending stat allocation
C4_Witness ==
    /\ Handled
    /\ req.msg \in CancelCmds
    /\ req.user.pending = "STAT_ALLOC"
    /\ Stored.pending = NULL

\* C5: under ADVENTURE_SELECT a continuation with a valid difficulty whose
\* cost exceeds the stored fatigue writes nothing, pending stays
\* ADVENTURE_SELECT; and an attendance grant under ADVENTURE_SELECT leaves
\* pending as it is with fatigue enough for every difficulty, so that the
\* continuation can succeed afterwards.
C5_FatigueShort ==
    /\ (/\ Handled
        /\ req.user.pending = "ADVENTURE_SELECT"
        /\ Len(req.msg) = 2
        /\ req.msg[1] = "moheom"
        /\ req.msg[2] \in Difficulties
        /\ fatigue_cost(req.msg[2]) > req.user.fatigue) =>
            /\ req.writes = <<>>
            /\ Stored = req.user
            /\ Stored.pending = "ADVENTURE_SELECT"
    /\ (/\ Handled
        /\ req.user.pending = "ADVENTURE_SELECT"
        /\ req.msg \in AttendanceCmds
        /\ req.user.last_attendance # req.today) =>
            /\ Stored.pending = "ADVENTURE_SELECT"
            /\ \A d \in Difficulties : Stored.fatigue >= fatigue_cost(d)

\* a continuation refused for fatigue
C5_Witness ==
    /\ Handled
    /\ req.user.pending = "ADVENTURE_SELECT"
    /\ req.msg = <<"moheom", "botong">>
    /\ req.user.fatigue = 0
    /\ req.resp = "fatigue_short"
    /\ Stored.pending = "ADVENTURE_SELECT"

\* the valid continuations of each pending kind
ValidContinuation(pending, msg) ==
    /\ Len(msg) = 2
    /\ CASE pending = "JOB_SELECT" ->
              msg[1] = "jigeop" /\ msg[2] \in {"jeonsa", "mabeopsa", "ninja"}
         [] pending = "STAT_ALLOC" ->
              /\ upper(msg[1]) \in StatNames
              /\ int(upper(msg[2])).ok
              /\ int(upper(msg[2])).val > 0
         [] pending = "ADVENTURE_SELECT" ->
              msg[1] = "moheom" /\ msg[2] \in Difficulties
         [] OTHER -> FALSE

C7_AttendanceOncePerDay ==
    /\ (Handled /\ req.msg \in AttendanceCmds) =>
          IF req.user.last_attendance = req.today
          THEN Stored = req.user
          ELSE /\ Stored.fatigue = req.user.fatigue + 30
               /\ Stored.last_attendance = req.today
               /\ SameExcept(Stored, req.user, {"fatigue", "last_attendance"})
    /\ (Handled /\ req.msg \notin AttendanceCmds) =>
          Stored.last_attendance = req.user.last_attendance
    /\ \A d \in 1 .. MaxDay : att[d].grants = att[d].asked

\* granted on one day, and granted again by the first command of the next
C7_Witness ==
    /\ Handled
    /\ req.msg \in AttendanceCmds
    /\ req.resp = "attended"
    /\ req.today = 3
    /\ req.user.last_attendance = 2
    /\ att[2].grants = 1
    /\ att[3].grants = 1
    /\ Stored.fatigue = req.user.fatigue + 30

\* C8: under STAT_ALLOC a continuation '<STAT> n' with n <= 0 or
\* n > stat_points changes nothing; otherwise the stat becomes
\* min(current + n, cap), stat_points decreases by used = min(n, cap - current),
\* the other stats are unchanged and pending becomes NULL, also when used = 0.
C8_StatAllocation ==
    (/\ Handled
     /\ req.user.pending = "STAT_ALLOC"
     /\ req.msg \notin GlobalCmds
     /\ Len(req.msg) = 2
     /\ upper(req.msg[1]) \in StatNames
     /\ int(upper(req.msg[2])).ok) =>
        LET name == upper(req.msg[1])
            col == stat_column(name)
            n == int(upper(req.msg[2])).val
            current == req.user[col]
            used == Min(n, stat_cap(name) - current)
        IN  IF n <= 0 \/ n > req.user.stat_points
            THEN Stored = req.user
            ELSE /\ Stored[col] = Min(current + n, stat_cap(name))
                 /\ Stored.stat_points = req.user.stat_points - used
                 /\ Stored.pending = NULL
                 /\ SameExcept(Stored, req.user, {col, "stat_points", "pending"})

\* an allocation to a stat already at its cap: nothing used, pending cleared
C8_Witness ==
    /\ Handled
    /\ req.user.pending = "STAT_ALLOC"
    /\ req.msg = <<"INT", "3">>
    /\ req.user.int_stat = 99
    /\ req.resp = "stat_allocated"
    /\ Stored.stat_points = req.user.stat_points
    /\ Stored.pending = NULL

\* C9: enhancement with cost = 50 + 25 * weapon_level: gold < cost changes
\* nothing; otherwise gold decreases by cost, weapon_level increases by 1
\* when roll <= max(10, 70 - 10 * weapon_level) and stays otherwise, and no
\* other column changes, pending included.
C9_Enhancement ==
    (Handled /\ req.msg \in EnhanceCmds) =>
        LET cost == 50 + 25 * req.user.weapon_level
            rate == Max(10, 70 - 10 * req.user.weapon_level)
        IN  IF req.user.gold < cost
            THEN Stored = req.user
            ELSE /\ req.roll \in 1 .. 100
                 /\ Stored.gold = req.user.gold - cost
                 /\ Stored.weapon_level =
                        req.user.weapon_level + IF req.roll <= rate THEN 1 ELSE 0
                 /\ SameExcept(Stored, req.user, {"gold", "weapon_level"})

\* a success at the floor of the success rate (70 - 10 * 7 < 10)
C9_Witness ==
    /\ Handled
    /\ req.msg \in EnhanceCmds
    /\ req.user.weapon_level = 7
    /\ req.roll = 10
    /\ req.resp = "enhance_success"
    /\ Stored.weapon_level = 8

\* C10: a continuation 'adventure <difficulty>' under ADVENTURE_SELECT with
\* fatigue >= cost is one UPDATE in which fatigue decreases by cost, level
\* increases by inc' = min(roll result, 99 - level), stat_points increases by
\* a value in [inc', 10 * inc'], gold by a value in [base, base + 5] and
\* pending becomes NULL; job, weapon_level, the stats and last_attendance stay.
C10_AdventureUpdate ==
    (/\ Handled
     /\ req.user.pending = "ADVENTURE_SELECT"
     /\ Len(req.msg) = 2
     /\ req.msg[1] = "moheom"
     /\ req.msg[2] \in Difficulties
     /\ req.user.fatigue >= fatigue_cost(req.msg[2])) =>
        LET d == req.msg[2]
            cost == CASE d = "swium" -> 1 [] d = "botong" -> 2 [] d = "eoryeoum" -> 3
            base == CASE d = "swium" -> 10 [] d = "botong" -> 20 [] d = "eoryeoum" -> 35
            inc == Min(level_up_rolls(d, req.user.luk, req.r), 99 - req.user.level)
            points == Stored.stat_points - req.user.stat_points
            gain == Stored.gold - req.user.gold
        IN  /\ Len(req.writes) = 1
            /\ req.r \in 0 .. 9999
            /\ Stored.fatigue = req.user.fatigue - cost
            /\ Stored.level = req.user.level + inc
            /\ inc <= points /\ points <= 10 * inc
            /\ base <= gain /\ gain <= base + 5
            /\ Stored.pending = NULL
            /\ SameExcept(Stored, req.user,
                          {"fatigue", "level", "stat_points", "gold", "pending"})

\* an adventure at level 99 whose roll grants a level: none is added, and no
\* stat point
C10_Witness ==
    /\ Handled
    /\ req.resp = "adventure_done"
    /\ req.user.level = 99
    /\ level_up_rolls(req.msg[2], req.user.luk, req.r) = 2
    /\ Stored.level = 99
    /\ Stored.stat_points = req.user.stat_points

(* ---------------- level_up_rolls on its own ---------------- *)
\* The calls tried: every difficulty and a label that is none, luk at 0 (the
\* function's own lower end), at both ends of the stored range and in
\* between, and every draw r (in units of 1/10000).
RollDifficulties == Difficulties \cup {"jiok"}
RollLuks == {0, 1, 250, 999}
RollDraws10000 == 0 .. 9999

InitRolls ==
    /\ db = {}
    /\ clock = 2
    /\ req = NoRequest
    /\ nreq = 0
    /\ att = AttOf(db)
    /\ procs = NoProcs
    /\ lu \in [difficulty : RollDifficulties, luk : RollLuks,
               r : RollDraws10000, result : {-1}]

\* the call returns
Roll ==
    /\ lu.result = -1
    /\ lu' = [lu EXCEPT !.result = level_up_rolls(lu.difficulty, lu.luk, lu.r)]
    /\ UNCHANGED <<db, clock, req, nreq, att, procs>>

SpecRolls == InitRolls /\ [][Roll]_vars

\* the number of draws, out of 10000, on which level_up_rolls returns gain
Count(difficulty, luk, gain) ==
    Cardinality({r \in RollDraws10000 : level_up_rolls(difficulty, luk, r) = gain})

\* C11: with r and the thresholds in units of 1/10000 and bonus = luk: easy
\* returns 1 iff r < 3000 + bonus, else 0, never 2; normal returns 2 iff
\* r < 1000 + bonus, else 1 iff r < 5000 + 2 * bonus, else 0; hard returns 2
\* iff r < 3000 + bonus, else 1 iff r < 10000 + 2 * bonus, else 0.  At luk = 0
\* easy gives +1 on 3000 draws of 10000 and +0 on 7000, normal gives +2 on
\* 1000 and +1 on 4000.
C11_LevelUpRolls ==
    lu.result # -1 =>
        LET bonus == lu.luk
            r == lu.r
        IN  /\ lu.difficulty = "swium" =>
                  /\ lu.result = IF r < 3000 + bonus THEN 1 ELSE 0
                  /\ lu.result # 2
            /\ lu.difficulty = "botong" =>
                  lu.result = IF r < 1000 + bonus THEN 2
                              ELSE IF r < 5000 + 2 * bonus THEN 1 ELSE 0
            /\ lu.difficulty = "eoryeoum" =>
                  lu.result = IF r < 3000 + bonus THEN 2
                              ELSE IF r < 10000 + 2 * bonus THEN 1 ELSE 0
            /\ (lu.luk = 0 /\ lu.r = 0 /\ lu.difficulty = "swium") =>
                  /\ Count("swium", 0, 1) = 3000
                  /\ Count("swium", 0, 0) = 7000
                  /\ Count("botong", 0, 2) = 1000
                  /\ Count("botong", 0, 1) = 4000

\* a normal roll just under the +1 threshold and above the +2 threshold
C11_Witness ==
    /\ lu.difficulty = "botong"
    /\ lu.luk = 999
    /\ lu.r = 6997
    /\ lu.result = 1

\* C12: a refused request changes nothing: the job request of a user whose
\* job is set, and the stat-use request of a user with no stat points, issue
\* no UPDATE; every column of the row, pending among them, is as loaded.
C12_RejectedRequests ==
    (/\ Handled
     /\ \/ req.msg \in JobCmds /\ req.user.job # NULL
        \/ req.msg \in StatUseCmds /\ req.user.stat_points = 0) =>
        /\ req.writes = <<>>
        /\ Stored = req.user
        /\ Stored.pending = req.user.pending
        /\ req.resp \in {"job_change_refused", "no_stat_points"}

\* a job request refused while an adventure selection is pending
C12_Witness ==
    /\ Handled
    /\ req.msg = <<"/jigeop">>
    /\ req.user.job = "NINJA"
    /\ req.user.pending = "ADVENTURE_SELECT"
    /\ req.resp = "job_change_refused"
    /\ Stored.pending = "ADVENTURE_SELECT"

\* the columns a request wrote
RECURSIVE Written(_)
Written(writes) ==
    IF writes = <<>> THEN {}
    ELSE DOMAIN Head(writes) \cup Written(Tail(writes))

\* C14: the first request of a user without a row is handled on the row
\* level 1, gold 100, weapon_level 0, job unset, hp = atk = int_stat = spd =
\* luk = 1, fatigue 0, stat_points 0, last_attendance unset, pending unset,
\* and that row with the request's UPDATEs is what is stored; a request of a
\* user with a row loads the stored row, and the row it leaves is the stored
\* one with the request's UPDATEs: the columns it did not write are as stored.
C14_LazyCreation ==
    [][nreq' = nreq + 1 =>
         /\ Cardinality(db') = 1
         /\ db = {} =>
              /\ req'.created
              /\ req'.user = [level |-> 1, gold |-> 100, weapon_level |-> 0,
                              job |-> NULL, hp |-> 1, atk |-> 1, int_stat |-> 1,
                              spd |-> 1, luk |-> 1, fatigue |-> 0,
                              stat_points |-> 0, last_attendance |-> NoDate,
                              pending |-> NULL]
              /\ req'.resp = webhook(req'.user, req'.msg, req'.today,
                                     [roll |-> req'.roll, r |-> req'.r,
                                      pts |-> req'.pts, g |-> req'.g]).resp
              /\ db' = {ApplyWrites(req'.user, req'.writes)}
         /\ db # {} =>
              /\ ~req'.created
              /\ req'.user = Stored
              /\ db' = {ApplyWrites(Stored, req'.writes)}
              /\ SameExcept(Stored', Stored, Written(req'.writes))]_vars

\* the second request of a user whose row the first request created
C14_Witness ==
    /\ nreq = 2
    /\ ~req.created
    /\ req.user.level = 1
    /\ req.user.pending = "JOB_SELECT"
    /\ req.msg = <<"jigeop", "jeonsa">>
    /\ Stored.job = "WARRIOR"
    /\ Stored.gold = 100

C17_JobSelectJobUnset ==
    /\ (db # {} /\ Stored.pending = "JOB_SELECT") => Stored.job = NULL
    /\ Handled =>
          /\ ~(req.user.pending = "JOB_SELECT" /\ req.user.job # NULL)
          /\ req.resp # "job_change_blocked"

\* a job selection asked for and pending
C17_Witness ==
    /\ Handled
    /\ req.msg = <<"/jigeop">>
    /\ req.resp = "job_prompt"
    /\ Stored.pending = "JOB_SELECT"
    /\ Stored.job = NULL

\* C18: with the requests handled one at a time, a stored row with pending
\* STAT_ALLOC has stat_points > 0: a request that sets STAT_ALLOC loaded
\* stat_points > 0, and a request that lowers stat_points clears pending.
C18_StatAllocHasPoints ==
    /\ (db # {} /\ Stored.pending = "STAT_ALLOC") => Stored.stat_points > 0
    /\ Handled =>
          /\ (Stored.pending = "STAT_ALLOC" /\ req.user.pending # "STAT_ALLOC")
                => req.user.stat_points > 0
          /\ Stored.stat_points < req.user.stat_points => Stored.pending = NULL

\* an allocation of part of the points, after which nothing is pending, and
\* an allocation still pending with points left
C18_Witness ==
    /\ Handled
    /\ req.user.pending = "STAT_ALLOC"
    /\ req.msg = <<"ATK", "9">>
    /\ req.resp = "stat_points_short"
    /\ Stored.pending = "STAT_ALLOC"
    /\ Stored.stat_points = 5

(* ---------------- requests of one user that interleave ---------------- *)
\* Several workers serve /webhook.  A request loads the row once (line 236),
\* computes every value it writes from that copy, and issues its UPDATE
\* statements one by one, each on its own connection and committed on its own
\* (lines 109-122); nothing orders the statements of two requests.
MaxProcs == 2
Procs == 1 .. MaxProcs

\* Rows handed to the interleaving requests, each one request away from a row
\* of the serial model: the long-time player after today's attendance, a new
\* player asked for a job, the player at the level cap asked for a stat.
Rested == ApplyWrites(Veteran, attendance(Veteran, 2).writes)
JobChooser == ApplyWrites(NewUser, job_request(NewUser).writes)
Allocating == ApplyWrites(Capped, stat_use(Capped).writes)

ConcUtterances ==
    {<<"/chwiso">>, <<"seutaet", "sayong">>, <<"/chulseok">>, <<"/ganghwa">>,
     <<"/jigeop">>, <<"/moheom">>, <<"jigeop", "jeonsa">>, <<"jigeop", "mabeopsa">>,
     <<"moheom", "swium">>, <<"moheom", "eoryeoum">>, <<"ATK", "3">>, <<"HP", "1">>,
     <<"annyeong">>}

\* the draws tried: an enhancement that succeeds and one that fails, an
\* adventure with a level roll at either end, the least and the most stat
\* points and gold
ConcDraws(user, msg, today) ==
    {d \in Draws(user, msg, today) :
        d.roll \in {1, 100} /\ d.r \in {0, 9999} /\ d.pts \in {<<1, 1>>, <<10, 10>>}}

\* the frame of a worker: where it is, the row it loaded, what it was sent,
\* the response it chose, its UPDATE statements and those still to issue
IdleFrame == [pc |-> "idle", user |-> NewUser, msg |-> <<>>, resp |-> NULL,
              writes |-> <<>>, left |-> <<>>]

InitConc ==
    /\ db \in {{Rested}, {JobChooser}, {Allocating}}
    /\ clock = 2
    /\ req = NoRequest
    /\ nreq = 0
    /\ att = AttOf(db)
    /\ procs = [p \in Procs |-> IdleFrame]
    /\ lu = NoCall

\* lines 236-254 and the branch taken: the worker loads the row and decides
\* its response and its UPDATE statements from the copy
Begin(p) ==
    /\ procs[p].pc = "idle"
    /\ \E m \in ConcUtterances :
         LET user == get_or_create_user(db) IN
         \E rnd \in ConcDraws(user, m, clock) :
           LET out == webhook(user, m, clock, rnd) IN
           procs' = [procs EXCEPT ![p] =
                        [pc |-> IF out.writes = <<>> THEN "done" ELSE "writing",
                         user |-> user, msg |-> m, resp |-> out.resp,
                         writes |-> out.writes, left |-> out.writes]]
    /\ UNCHANGED <<db, clock, req, nreq, att, lu>>

\* faulty variant: the statement adds the request's change to the stored value
execute_relative(stored, frame) ==
    LET fields == Head(frame.left) IN
    [k \in Fields |->
        IF k \in DOMAIN fields /\ k \in {"gold", "level", "stat_points", "fatigue"}
        THEN stored[k] + (fields[k] - frame.user[k])
        ELSE IF k \in DOMAIN fields THEN fields[k] ELSE stored[k]]

\* lines 109-122 as called by the handler: the next statement of the request,
\* with the values computed from the copy, run on the stored row
execute(stored, frame) == update_user_fields(stored, Head(frame.left))

\* one UPDATE statement of a worker is executed and committed
Update(p) ==
    /\ procs[p].pc = "writing"
    /\ db' = {execute(get_or_create_user(db), procs[p])}
    /\ procs' = [procs EXCEPT ![p].left = Tail(@),
                              ![p].pc = IF Len(procs[p].left) = 1
                                        THEN "done" ELSE "writing"]
    /\ UNCHANGED <<clock, req, nreq, att, lu>>

Receive == \E p \in Procs : Begin(p)

Commit == \E p \in Procs : Update(p)

NextConc == Receive \/ Commit

SpecConc == InitConc /\ [][NextConc]_vars

\* a worker has issued every UPDATE of its request
Done(p) == procs[p].pc = "done"

\* a worker has issued none of the UPDATEs of a request
Unissued(p) == procs[p].left = procs[p].writes

\* the rows one request can leave, over every draw
After(row, msg) ==
    {ApplyWrites(row, webhook(row, msg, clock, d).writes) : d \in Draws(row, msg, clock)}

\* the rows two requests handled one after the other can leave, in either
\* order and over every draw
SerialOutcomes(row, m1, m2) ==
    UNION {After(mid, m2) : mid \in After(row, m1)}
    \cup UNION {After(mid, m1) : mid \in After(row, m2)}

\* two workers loaded the same row, each has written gold, and no other
\* worker has written
BothWroteGold(p, q) ==
    /\ p # q
    /\ Done(p) /\ Done(q)
    /\ procs[p].user = procs[q].user
    /\ "gold" \in Written(procs[p].writes)
    /\ "gold" \in Written(procs[q].writes)
    /\ \A o \in Procs \ {p, q} : Unissued(o)

\* C13: when two requests loaded the same row and each wrote a changed gold,
\* the stored gold is the value of one of them alone, not the row's gold with
\* both changes: one change is lost.  For an enhancement and an adventure the
\* stored row is one that no serial order of the two requests leaves,
\* whatever the draws; so it is for two enhancements that the gold covered
\* and that left the weapon level as it was.
C13_LostUpdate ==
    \A p, q \in Procs :
        BothWroteGold(p, q) =>
            LET row == procs[p].user
                vp == ApplyWrites(row, procs[p].writes).gold
                vq == ApplyWrites(row, procs[q].writes).gold
            IN  /\ vp # row.gold
                /\ vq # row.gold
                /\ Stored.gold \in {vp, vq}
                /\ Stored.gold # row.gold + (vp - row.gold) + (vq - row.gold)
                /\ (procs[p].msg \in EnhanceCmds /\ startswith(procs[q].msg, "moheom"))
                      => Stored \notin SerialOutcomes(row, procs[p].msg, procs[q].msg)
                /\ (/\ procs[p].msg \in EnhanceCmds
                    /\ procs[q].msg \in EnhanceCmds
                    /\ row.gold >= 2 * (50 + row.weapon_level * 25)
                    /\ Stored.weapon_level = row.weapon_level)
                      => Stored \notin SerialOutcomes(row, procs[p].msg, procs[q].msg)

\* an enhancement and a hard adventure from the same row: the adventure wrote
\* last, the cost of the enhancement is not in the stored gold
C13_Witness ==
    \E p, q \in Procs :
        /\ BothWroteGold(p, q)
        /\ procs[p].user = Rested
        /\ procs[p].msg = <<"/ganghwa">>
        /\ procs[p].resp = "enhance_success"
        /\ procs[q].msg = <<"moheom", "eoryeoum">>
        /\ Stored.weapon_level = Rested.weapon_level + 1
        /\ Stored.gold = Rested.gold + 35
        /\ Stored \notin SerialOutcomes(Rested, <<"/ganghwa">>, <<"moheom", "eoryeoum">>)

\* C16: no stored row shows a continuation half applied: not a job selection
\* whose clearing of pending is stored while the job is still unset, not a stat
\* allocation whose stat and stat_points are stored while pending is still
\* STAT_ALLOC; a request has issued all of its UPDATEs or none.
C16_FullyAppliedOrDeclined ==
    \A p \in Procs :
        /\ ~(/\ procs[p].resp = "job_set"
             /\ ~Unissued(p)
             /\ Stored.pending = NULL
             /\ Stored.job = NULL)
        /\ ~(/\ procs[p].resp = "stat_allocated"
             /\ ~Unissued(p)
             /\ Stored.stat_points < procs[p].user.stat_points
             /\ Stored.pending = "STAT_ALLOC")
        /\ procs[p].pc = "writing" => Unissued(p)

\* C19: every stored row is in range however the requests interleave: 1 <=
\* level <= 99, the stats within 1 and their caps, stat_points, gold and
\* fatigue not negative, pending one of the four values.
C19_RangesInterleaved == \A row \in db : InRange(row)

\* two adventures from the same row at level 98, both written: level 99
C19_Witness ==
    \E p, q \in Procs :
        /\ p # q
        /\ Done(p) /\ Done(q)
        /\ procs[p].user = Rested
        /\ procs[q].user = Rested
        /\ procs[p].resp = "adventure_done"
        /\ procs[q].resp = "adventure_done"
        /\ Stored.level = 99
        /\ Stored.fatigue = Rested.fatigue - 3

\* C20: however the requests interleave, a stored job that is set is never
\* replaced by another, and no stored row has a job together with pending
\* JOB_SELECT.
C20_JobWriteOnceInterleaved ==
    [][/\ Stored.job # NULL => Stored'.job = Stored.job
       /\ ~(Stored'.job # NULL /\ Stored'.pending = "JOB_SELECT")]_vars

====
